---- MODULE Spec2Model ----
(***************************************************************************)
(* tex-filter.py: a streaming filter for TeX's console output.              *)
(*                                                                         *)
(* Lines are TLA+ strings, read character by character with SubSeq.  The   *)
(* regular expressions of the source are kept as syntax trees and matched  *)
(* by a backtracking matcher that lists the ends of the matches in the     *)
(* order Python's re tries them (greedy repetition, leftmost alternative). *)
(***************************************************************************)
EXTENDS Integers, Sequences, FiniteSets, TLC

(***************************************************************************)
(* Strings (str methods used by the source)                                *)
(***************************************************************************)

\* s[i] as a one-character string
CharAt(s, i) == SubSeq(s, i, i)

\* the characters str.strip() removes
Whitespace == {" ", "\t", "\n", "\r", "\f"}

RECURSIVE LStrip(_)
LStrip(s) ==
    IF s # "" /\ CharAt(s, 1) \in Whitespace THEN LStrip(SubSeq(s, 2, Len(s))) ELSE s

RECURSIVE RStrip(_)
RStrip(s) ==
    IF s # "" /\ CharAt(s, Len(s)) \in Whitespace THEN RStrip(SubSeq(s, 1, Len(s) - 1)) ELSE s

\* str.strip()
Strip(s) == RStrip(LStrip(s))

\* s[i:].startswith(p), with i counted from 1
StartsWithAt(s, p, i) ==
    /\ i + Len(p) - 1 <= Len(s)
    /\ SubSeq(s, i, i + Len(p) - 1) = p

\* s.startswith(p)
StartsWith(s, p) == StartsWithAt(s, p, 1)

\* StartsWithAny, asking for a whole line of the tuple instead of a prefix
StartsWithAny_exact(s, ps) == \E k \in 1..Len(ps) : s = ps[k]

\* s.startswith(ps) for a tuple ps of prefixes
StartsWithAny(s, ps) == \E k \in 1..Len(ps) : StartsWith(s, ps[k])

\* s.endswith(p)
EndsWith(s, p) ==
    /\ Len(p) <= Len(s)
    /\ SubSeq(s, Len(s) - Len(p) + 1, Len(s)) = p

\* p in s
Contains(s, p) == \E i \in 1..(Len(s) + 1) : StartsWithAt(s, p, i)

(***************************************************************************)
(* Regular expressions (module re)                                         *)
(***************************************************************************)

Lit(str)  == [t |-> "lit", s |-> str]
In(chars) == [t |-> "in", cs |-> chars]
NotIn(chars) == [t |-> "notin", cs |-> chars]
AnyChar   == [t |-> "notin", cs |-> {"\n"}]
Cat(rs)   == [t |-> "cat", xs |-> rs]
Alt(rs)   == [t |-> "alt", xs |-> rs]
Star(r)   == [t |-> "star", x |-> r]
Plus(r)   == [t |-> "cat", xs |-> <<r, [t |-> "star", x |-> r]>>]
Opt(r)    == [t |-> "alt", xs |-> <<r, [t |-> "lit", s |-> ""]>>]

Lower  == {"a","b","c","d","e","f","g","h","i","j","k","l","m",
           "n","o","p","q","r","s","t","u","v","w","x","y","z"}
Upper  == {"A","B","C","D","E","F","G","H","I","J","K","L","M",
           "N","O","P","Q","R","S","T","U","V","W","X","Y","Z"}
Digit  == {"0","1","2","3","4","5","6","7","8","9"}
\* \w, \d and \s over the characters of the model
WordChar == Lower \cup Upper \cup Digit \cup {"_"}

\* the characters a class expression accepts
Accepts(r, c) == IF r.t = "in" THEN c \in r.cs ELSE c \notin r.cs

RECURSIVE Match(_, _, _)
\* The backtracking matcher: the position just after the match of the
\* expressions rs, one after the other, in s from position i, and 0 when
\* they do not match there.  Of several matches it takes the one Python's re
\* takes: the leftmost alternative that lets the rest match, and the longest
\* repetition that lets the rest match.  Every repetition of the source
\* repeats a character class.
Match(rs, s, i) ==
    IF rs = <<>> THEN i
    ELSE LET r == Head(rs)
             rest == Tail(rs)
         IN  CASE r.t = "lit" ->
                    IF StartsWithAt(s, r.s, i) THEN Match(rest, s, i + Len(r.s)) ELSE 0
               [] r.t \in {"in", "notin"} ->
                    IF i <= Len(s) /\ Accepts(r, CharAt(s, i)) THEN Match(rest, s, i + 1) ELSE 0
               [] r.t = "cat" -> Match(r.xs \o rest, s, i)
               [] r.t = "alt" ->
                    LET ok == {k \in 1..Len(r.xs) : Match(<<r.xs[k]>> \o rest, s, i) # 0}
                    IN  IF ok = {} THEN 0
                        ELSE Match(<<r.xs[CHOOSE k \in ok : \A m \in ok : k <= m]>> \o rest, s, i)
               [] r.t = "star" ->
                    LET e == CHOOSE j \in i..(Len(s) + 1) :
                                 /\ \A k \in i..(j - 1) : Accepts(r.x, CharAt(s, k))
                                 /\ j = Len(s) + 1 \/ ~Accepts(r.x, CharAt(s, j))
                        ok == {j \in i..e : Match(rest, s, j) # 0}
                    IN  IF ok = {} THEN 0
                        ELSE Match(rest, s, CHOOSE j \in ok : \A m \in ok : j >= m)

\* re.match(r, s) from position i: 0 when there is no match, else the
\* position after it
MatchEnd(r, s, i) == Match(<<r>>, s, i)

\* bool(re.match(r, s))
ReMatch(r, s) == MatchEnd(r, s, 1) # 0

\* the first position from i on where r matches, 0 when there is none; no
\* pattern of the source matches the empty string
NextMatch(r, s, i) ==
    LET starts == {j \in i..Len(s) : MatchEnd(r, s, j) > j}
    IN  IF starts = {} THEN 0 ELSE CHOOSE j \in starts : \A k \in starts : j <= k

RECURSIVE SubFrom(_, _, _, _)
\* re.sub(r, repl, s) from position i on: the matches are replaced from left
\* to right and the search goes on after each match
SubFrom(r, repl, s, i) ==
    LET j == NextMatch(r, s, i) IN
    IF j = 0 THEN SubSeq(s, i, Len(s))
    ELSE SubSeq(s, i, j - 1) \o repl \o SubFrom(r, repl, s, MatchEnd(r, s, j))

\* re.sub(r, repl, s)
ReSub(r, repl, s) == SubFrom(r, repl, s, 1)

\* s.replace(old, new)
Replace(s, old, new) == ReSub(Lit(old), new, s)

\* fullmatch(pattern, string) of the source: the match re.match takes must
\* end at the end of the string
fullmatch(r, s) == MatchEnd(r, s, 1) = Len(s) + 1

(***************************************************************************)
(* The tables of the source                                                *)
(***************************************************************************)

\* the character ` (a string of the module cannot end inside `...')
Backtick == SubSeq("`'", 1, 1)

\* a tuple of strings as a tuple of literal expressions
LitEach(strs) == [k \in 1..Len(strs) |-> Lit(strs[k])]

FILE_FORMATS ==
    Alt(LitEach(<<"sty", "tex", "cfg", "def", "clo", "fd", "mkii", "pfb", "enc", "map", "cls",
                  "otf", "ldf", "tikz", "aux", "out", "bbl", "ltx", "sto", "ttf", "dict">>))

\* [a-zA-Z0-9\-_\/\.]
PathChar == Lower \cup Upper \cup Digit \cup {"-", "_", "/", "."}

UNPREFIXED_STD_PATH_PATTERN ==
    Cat(<<Lit("/texmf-"), Alt(<<Lit("dist"), Lit("var")>>), Lit("/"),
          Plus(In(PathChar)), Lit("."), FILE_FORMATS>>)

LOCAL_PATH_PATTERN ==
    Cat(<<AnyChar, Lit("/"), Plus(In(PathChar)), Lit("."), FILE_FORMATS>>)

PATH_STUB == "#"

\* PATH_STUB_PATTERN, taking any group that opens with a stub token: \(#[^)]*\)
PATH_STUB_PATTERN_any ==
    Cat(<<Lit("(#"), Star(NotIn({")"})), Lit(")")>>)

PATH_STUB_PATTERN ==
    Cat(<<Lit("(#"), Star(In({"(", "#", ")", " "})), Lit(")")>>)

PATH_STUB_PATTERN_2 == Plus(In({"(", "#", ")", " "}))

VBOX_SUFFIX == "has occurred while \\output is active"

BAD_STRS == <<" ABD: EveryShipout initializing macros">>

\* [A-Za-z0-9\-_/]
AuxChar == Lower \cup Upper \cup Digit \cup {"-", "_", "/"}

BAD_PATTERNS == <<
    Cat(<<Lit("pdfTeX warning (dest): name{"), Star(NotIn({"}"})),
          Lit("} has been referenced but does not exist, replaced by a fixed one")>>),
    Cat(<<Lit("warning  (pdf backend): unreferenced destination with name '"),
          Star(NotIn({"'"})), Lit("'")>>),
    Cat(<<Opt(Lit(" ")), Lit("Excluding comment '"), Star(NotIn({"'"})), Lit("'"),
          Opt(Lit("."))>>),
    Cat(<<Opt(Lit(" ")), Lit("Excluding '"), Star(NotIn({"'"})), Lit("' comment"),
          Opt(Lit("."))>>),
    Cat(<<Lit("("), Plus(In(AuxChar)), Lit(".aux)")>>),
    Cat(<<Lit("("), Plus(In(AuxChar)), Lit(".out)")>>),
    Cat(<<Lit("Library (tcolorbox): 'tcb"), Plus(In(Lower \cup Upper \cup Digit)),
          Lit(".code.tex' version '"), Plus(In(Digit \cup {"."})), Lit("'")>>)
>>

BAD_LINES == <<
    "This is pdfTeX, Version",
    "This is LuaHBTeX, Version",
    "This is XeTeX, Version",
    "restricted \\write18 enabled.",
    "restricted system commands enabled.",
    "LaTeX2e <",
    "entering extended mode",
    "L3 programming layer",
    "Document Class:",
    "For additional information on amsmath, use the `?' option.",
    "Document Style algorithmicx 1.2 - a greatly improved `algorithmic' style",
    "Document Style - pseudocode environments for use with the `algorithmicx' style",
    "*geometry* driver: auto-detecting",
    "*geometry* detected driver:",
    "[Loading MPS to PDF converter",
    "(see the transcript file for additional information)",
    "Transcript written on",
    "avail lists:",
    "AED: lastpage setting LastPage",
    "Package: textpos",
    "Grid set",
    "TextBlockOrigin set to",
    "socg-lipics-v2019: fix",
    "socg-lipics-v2019: subcaption",
    "Package tocbibind Note: Using chapter style headings, unless overridden.",
    "(natbib)                Rerun to get citations correct.",
    "(rerunfilecheck)                Rerun to get outlines right",
    "(rerunfilecheck)                or use package `bookmark'.",
    "(rerunfilecheck)                Rerun to get bibliographical references right."
>>

CITEREF_PATTERN ==
    Cat(<<Alt(<<Lit("LaTeX"), Lit("Package natbib")>>), Lit(" Warning: "),
          Alt(<<Lit("Citation"), Lit("Reference"), Lit("Hyper reference")>>),
          Lit(" " \o Backtick), Plus(NotIn({"'"})), Lit("'"),
          Opt(Cat(<<Lit(" on page "), Plus(In(WordChar))>>)),
          Lit(" undefined on input line "), Plus(In(Digit)), AnyChar>>)

LATEX_FONT_WARN_1 ==
    Cat(<<Lit("LaTeX Font Warning: Font shape " \o Backtick), Plus(In(WordChar \cup {"/"})), Lit("' "),
          Alt(<<Lit("undefined"),
                Cat(<<Lit("in size <"), Plus(In(Digit \cup {"."})),
                      Lit("> not available")>>)>>)>>)

LATEX_FONT_WARN_2 ==
    Cat(<<Lit("(Font)"), Plus(In(Whitespace)),
          Alt(<<Cat(<<Lit("size <"), Plus(In(Digit \cup {"."})), Lit("> substituted")>>),
                Cat(<<Lit("using " \o Backtick), Plus(In(WordChar \cup {"/"})), Lit("' instead")>>)>>),
          Lit(" on input line "), Plus(In(Digit)), AnyChar>>)

\* OFULL_VBOX_PATTERN, without the phrase that follows the height
OFULL_VBOX_PATTERN_anyphrase ==
    Cat(<<Lit("Overfull \\vbox ("), Plus(In(Digit \cup {"."})), Lit("pt too high) ")>>)

\* the patterns written in place in clean_file
OFULL_VBOX_PATTERN ==
    Cat(<<Lit("Overfull \\vbox ("), Plus(In(Digit \cup {"."})), Lit("pt too high) "),
          Lit(VBOX_SUFFIX)>>)

UFULL_VBOX_PATTERN ==
    Cat(<<Lit("Underfull \\vbox (badness "), Plus(In(Digit)), Lit(") "), Lit(VBOX_SUFFIX)>>)

PAGE_NUMBER_PATTERN ==
    Cat(<<Star(In(Whitespace)), Lit("["), Plus(In(Digit \cup {"."})), Lit("]")>>)

PARENS_PATTERN == Plus(In({"(", ")", " "}))

\* rule name |-> default value, as int(defval)
FILTERS ==
    [local_paths |-> 0, std_paths |-> 1, path_stubs |-> 1, bad_lines |-> 1,
     full_hbox_details |-> 1, ofull_hbox |-> 0, ufull_hbox |-> 0, ofull_vbox |-> 0,
     ufull_vbox |-> 0, bad_strs |-> 1, page_numbers |-> 1, empty_lines |-> 1,
     citeref |-> 0, words_of_mem |-> 1, font |-> 0]

(***************************************************************************)
(* get_prefix                                                              *)
(***************************************************************************)

CMR10_SUFFIX == "/texmf-dist/fonts/type1/public/amsfonts/cm/cmr10.pfb"

\* get_prefix succeeds when kpsewhich exits with status 0 and prints a path
\* that ends with the suffix
PrefixFound(k) == k.status = 0 /\ EndsWith(Strip(k.out), CMR10_SUFFIX)

\* path[:-len(suffix)]
get_prefix(k) == SubSeq(Strip(k.out), 1, Len(Strip(k.out)) - Len(CMR10_SUFFIX))

(***************************************************************************)
(* clean_file: the body of the loop, one line at a time                    *)
(***************************************************************************)

\* Sentinel, testing the line after strip() instead of the raw line
Sentinel_stripped(errcode, raw) == IF StartsWith(Strip(raw), "! ") THEN 1 ELSE errcode

\* Sentinel, assigning errcode on every line
Sentinel_assigned(errcode, raw) == IF StartsWith(raw, "! ") THEN 1 ELSE 0

\* errcode after the test of the raw line
Sentinel(errcode, raw) == IF StartsWith(raw, "! ") THEN 1 ELSE errcode

has_ofull_hbox(line) == StartsWith(line, "Overfull \\hbox")

has_ufull_hbox(line) == StartsWith(line, "Underfull \\hbox")

\* LineState(has_ofull_hbox or has_ufull_hbox, words_of_mem) of a stripped line
LineState(line) ==
    [full_hbox |-> has_ofull_hbox(line) \/ has_ufull_hbox(line),
     words_of_mem |-> Contains(line, "words of node memory still in use")]

\* Discard, looking for the hbox header in the line itself, not in the line
\* before it
Discard_nolookback(f, prev, line) ==
    \/ f.full_hbox_details /\ LineState(line).full_hbox
    \/ f.ofull_hbox /\ has_ofull_hbox(line)
    \/ f.ufull_hbox /\ has_ufull_hbox(line)
    \/ f.font /\ (fullmatch(LATEX_FONT_WARN_1, line) \/ fullmatch(LATEX_FONT_WARN_2, line))
    \/ f.citeref /\ ReMatch(CITEREF_PATTERN, line)
    \/ f.bad_lines /\ StartsWithAny(line, BAD_LINES)
    \/ f.words_of_mem /\ (LineState(line).words_of_mem \/ prev.words_of_mem)

\* Discard, with the node-memory rule looking at the line itself only
Discard_markerOnly(f, prev, line) ==
    \/ f.full_hbox_details /\ prev.full_hbox
    \/ f.ofull_hbox /\ has_ofull_hbox(line)
    \/ f.ufull_hbox /\ has_ufull_hbox(line)
    \/ f.font /\ (fullmatch(LATEX_FONT_WARN_1, line) \/ fullmatch(LATEX_FONT_WARN_2, line))
    \/ f.citeref /\ ReMatch(CITEREF_PATTERN, line)
    \/ f.bad_lines /\ StartsWithAny(line, BAD_LINES)
    \/ f.words_of_mem /\ LineState(line).words_of_mem

\* discard, for the stripped line and the state of the line before it
Discard(f, prev, line) ==
    \/ f.full_hbox_details /\ prev.full_hbox
    \/ f.ofull_hbox /\ has_ofull_hbox(line)
    \/ f.ufull_hbox /\ has_ufull_hbox(line)
    \/ f.font /\ (fullmatch(LATEX_FONT_WARN_1, line) \/ fullmatch(LATEX_FONT_WARN_2, line))
    \/ f.citeref /\ ReMatch(CITEREF_PATTERN, line)
    \/ f.bad_lines /\ StartsWithAny(line, BAD_LINES)
    \/ f.words_of_mem /\ (LineState(line).words_of_mem \/ prev.words_of_mem)

RECURSIVE ReplaceEach(_, _, _)
\* for s in strs: line = line.replace(s, ''), from the k-th string on
ReplaceEach(strs, k, line) ==
    IF k > Len(strs) THEN line ELSE ReplaceEach(strs, k + 1, Replace(line, strs[k], ""))

RECURSIVE SubEach(_, _, _)
\* for s in patterns: line = re.sub(s, '', line), from the k-th pattern on
SubEach(patterns, k, line) ==
    IF k > Len(patterns) THEN line ELSE SubEach(patterns, k + 1, ReSub(patterns[k], "", line))

\* if fullmatch(PATH_STUB_PATTERN_2, line): line = ''
BlankIfStubs(line) == IF fullmatch(PATH_STUB_PATTERN_2, line) THEN "" ELSE line

\* the first path_stubs block
CleanStubs(line) ==
    Replace(Replace(BlankIfStubs(ReSub(PATH_STUB_PATTERN, "", line)),
                    "<" \o PATH_STUB \o ">", ""),
            "{" \o PATH_STUB \o "}", "")

\* the steps of the rewrite chain, each under its filter
DropBadStrs(f, line) ==
    IF f.bad_strs THEN SubEach(BAD_PATTERNS, 1, ReplaceEach(BAD_STRS, 1, line)) ELSE line

DropOfullVbox(f, line) == IF f.ofull_vbox THEN ReSub(OFULL_VBOX_PATTERN, "", line) ELSE line

DropUfullVbox(f, line) == IF f.ufull_vbox THEN ReSub(UFULL_VBOX_PATTERN, "", line) ELSE line

StubStdPaths(f, std_path_pattern, line) ==
    IF f.std_paths THEN ReSub(std_path_pattern, PATH_STUB, line) ELSE line

StubLocalPaths(f, line) ==
    IF f.local_paths THEN ReSub(LOCAL_PATH_PATTERN, PATH_STUB, line) ELSE line

DropStubs(f, line) == IF f.path_stubs THEN CleanStubs(line) ELSE line

\* DropPageNumbers, taking only a page number that ends the line
DropPageNumbers_trailing(f, line) ==
    IF f.page_numbers
           /\ \E i \in 1..Len(line) : MatchEnd(PAGE_NUMBER_PATTERN, line, i) = Len(line) + 1
    THEN SubSeq(line, 1,
                (CHOOSE i \in 1..Len(line) :
                     /\ MatchEnd(PAGE_NUMBER_PATTERN, line, i) = Len(line) + 1
                     /\ \A j \in 1..(i - 1) :
                            MatchEnd(PAGE_NUMBER_PATTERN, line, j) # Len(line) + 1) - 1)
    ELSE line

DropPageNumbers(f, line) ==
    IF f.page_numbers THEN ReSub(PAGE_NUMBER_PATTERN, "", line) ELSE line

\* DropStubsAgain, without the second test
DropStubsAgain_skipped(f, line) == line

DropStubsAgain(f, line) == IF f.path_stubs THEN BlankIfStubs(line) ELSE line

BlankIfParens(line) == IF fullmatch(PARENS_PATTERN, line) THEN "" ELSE line

\* the rewrites of a line that is not discarded, in the order of the source,
\* up to the final strip
Rewrite(f, std_path_pattern, line) ==
    Strip(BlankIfParens(DropStubsAgain(f, DropPageNumbers(f, DropStubs(f,
        StubLocalPaths(f, StubStdPaths(f, std_path_pattern,
            DropUfullVbox(f, DropOfullVbox(f, DropBadStrs(f, line))))))))))

\* Written, without the test that the line is blank
Written_noblanktest(f, prev_is_empty, line) == ~(f.empty_lines \/ prev_is_empty)

\* the test that guards ofp.write
Written(f, prev_is_empty, line) == ~(line = "" /\ (f.empty_lines \/ prev_is_empty))

\* std_path_prefix + UNPREFIXED_STD_PATH_PATTERN; the prefixes of the model
\* hold no character that is special in a pattern
StdPathPattern(prefix) == Cat(<<Lit(prefix), UNPREFIXED_STD_PATH_PATTERN>>)

\* Body, forgetting after a discarded line that the last written line was
\* blank
Body_forgets(f, std_path_pattern, st, raw) ==
    LET line    == Strip(raw)
        state   == LineState(line)
        discard == Discard(f, st.prev_state, line)
        out     == Rewrite(f, std_path_pattern, line)
    IN  [errcode       |-> Sentinel(st.errcode, raw),
         prev_state    |-> state,
         prev_is_empty |-> IF discard THEN FALSE ELSE out = "",
         ofp           |-> IF ~discard /\ Written(f, st.prev_is_empty, out)
                           THEN Append(st.ofp, out \o "\n") ELSE st.ofp]

\* Body, writing nothing more once errcode is set
Body_silenced(f, std_path_pattern, st, raw) ==
    LET line    == Strip(raw)
        state   == LineState(line)
        discard == Discard(f, st.prev_state, line)
        out     == Rewrite(f, std_path_pattern, line)
    IN  [errcode       |-> Sentinel(st.errcode, raw),
         prev_state    |-> state,
         prev_is_empty |-> IF discard THEN st.prev_is_empty ELSE out = "",
         ofp           |-> IF ~discard /\ Written(f, st.prev_is_empty, out) /\ st.errcode = 0
                           THEN Append(st.ofp, out \o "\n") ELSE st.ofp]

\* Body, with the update of prev_state inside `if not discard`
Body_keepsLookback(f, std_path_pattern, st, raw) ==
    LET line    == Strip(raw)
        state   == LineState(line)
        discard == Discard(f, st.prev_state, line)
        out     == Rewrite(f, std_path_pattern, line)
    IN  [errcode       |-> Sentinel(st.errcode, raw),
         prev_state    |-> IF discard THEN st.prev_state ELSE state,
         prev_is_empty |-> IF discard THEN st.prev_is_empty ELSE out = "",
         ofp           |-> IF ~discard /\ Written(f, st.prev_is_empty, out)
                           THEN Append(st.ofp, out \o "\n") ELSE st.ofp]

\* Body, resetting the lookback state after a discarded line
Body_resetsLookback(f, std_path_pattern, st, raw) ==
    LET line    == Strip(raw)
        state   == LineState(line)
        discard == Discard(f, st.prev_state, line)
        out     == Rewrite(f, std_path_pattern, line)
    IN  [errcode       |-> Sentinel(st.errcode, raw),
         prev_state    |-> IF discard THEN [full_hbox |-> FALSE, words_of_mem |-> FALSE]
                           ELSE state,
         prev_is_empty |-> IF discard THEN st.prev_is_empty ELSE out = "",
         ofp           |-> IF ~discard /\ Written(f, st.prev_is_empty, out)
                           THEN Append(st.ofp, out \o "\n") ELSE st.ofp]

\* Body, keeping in the lookback state what any earlier line set
Body_accumulates(f, std_path_pattern, st, raw) ==
    LET line    == Strip(raw)
        state   == LineState(line)
        discard == Discard(f, st.prev_state, line)
        out     == Rewrite(f, std_path_pattern, line)
    IN  [errcode       |-> Sentinel(st.errcode, raw),
         prev_state    |-> [full_hbox |-> st.prev_state.full_hbox \/ state.full_hbox,
                            words_of_mem |-> st.prev_state.words_of_mem
                                                 \/ state.words_of_mem],
         prev_is_empty |-> IF discard THEN st.prev_is_empty ELSE out = "",
         ofp           |-> IF ~discard /\ Written(f, st.prev_is_empty, out)
                           THEN Append(st.ofp, out \o "\n") ELSE st.ofp]

\* One round of the loop: the locals of clean_file and the writes to ofp
\* after the round that reads raw, from those before it.
Body(f, std_path_pattern, st, raw) ==
    LET line    == Strip(raw)
        state   == LineState(line)
        discard == Discard(f, st.prev_state, line)
        out     == Rewrite(f, std_path_pattern, line)
    IN  [errcode       |-> Sentinel(st.errcode, raw),
         prev_state    |-> state,
         prev_is_empty |-> IF discard THEN st.prev_is_empty ELSE out = "",
         ofp           |-> IF ~discard /\ Written(f, st.prev_is_empty, out)
                           THEN Append(st.ofp, out \o "\n") ELSE st.ofp]

\* Start, as if a line with text had been written before the first line
Start_afterText ==
    [errcode |-> 0, prev_state |-> [full_hbox |-> FALSE, words_of_mem |-> FALSE],
     prev_is_empty |-> FALSE, ofp |-> <<>>]

\* the locals before the first line
Start == [errcode |-> 0, prev_state |-> [full_hbox |-> FALSE, words_of_mem |-> FALSE],
          prev_is_empty |-> TRUE, ofp |-> <<>>]

RECURSIVE clean_file(_, _, _, _)
\* clean_file over the first k lines of a stream
clean_file(lines, k, std_path_prefix, f) ==
    IF k = 0 THEN Start
    ELSE Body(f, StdPathPattern(std_path_prefix),
              clean_file(lines, k - 1, std_path_prefix, f), lines[k])

(***************************************************************************)
(* main: the process                                                       *)
(***************************************************************************)

VARIABLES
    args,             \* the parsed command line: option name |-> 0 or 1
    kpsewhich,        \* what `kpsewhich cmr10.pfb` answers: exit status and stdout
    ifp,              \* sys.stdin: the raw lines of the stream, terminators included
    pc,               \* where main is: "get_prefix", "clean_file", "exit", "raised"
    std_path_prefix,  \* prefix, the value of get_prefix()
    nread,            \* how many lines of ifp the for loop has taken
    errcode,          \* clean_file's errcode
    prev_state,       \* clean_file's prev_state
    prev_is_empty,    \* clean_file's prev_is_empty
    ofp,              \* sys.stdout: the strings written, one per ofp.write
    exit_status       \* the exit status of the process, -1 while it runs

vars == <<args, kpsewhich, ifp, pc, std_path_prefix, nread, errcode, prev_state,
          prev_is_empty, ofp, exit_status>>

\* the options main adds to the parser
ArgNames == DOMAIN FILTERS \cup {"detect_error"}

\* the value of each option when the command line does not set it
Defaults == [name \in ArgNames |-> IF name = "detect_error" THEN 1 ELSE FILTERS[name]]

\* filters = {name: bool(value) for name, value in vars(args).items()}
Filters(a) == [name \in DOMAIN a |-> a[name] # 0]

\* the command lines that set only options among names
ArgsSetting(names) ==
    {[name \in ArgNames |-> IF name \in names THEN v[name] ELSE Defaults[name]] :
        v \in [names -> {0, 1}]}

\* the streams of at most n lines taken from pool
Streams(pool, n) == UNION {[1..k -> pool] : k \in 0..n}

\* a standard installation, a non-standard one, and a failing kpsewhich
KpsewhichAnswers ==
    {[status |-> 0,
      out |-> "/opt/texlive/2020/texmf-dist/fonts/type1/public/amsfonts/cm/cmr10.pfb\n"],
     [status |-> 0, out |-> "/opt/tex/fonts/cmr10.pfb\n"],
     [status |-> 1, out |-> ""]}

\* the process after parse_args, for the given command lines and streams
InitWith(argsSet, streams) ==
    /\ args \in argsSet
    /\ kpsewhich \in KpsewhichAnswers
    /\ ifp \in streams
    /\ pc = "get_prefix"
    /\ std_path_prefix = ""
    /\ nread = 0
    /\ errcode = Start.errcode
    /\ prev_state = Start.prev_state
    /\ prev_is_empty = Start.prev_is_empty
    /\ ofp = Start.ofp
    /\ exit_status = -1

\* prefix = get_prefix()
GetPrefix ==
    /\ pc = "get_prefix"
    /\ PrefixFound(kpsewhich)
    /\ std_path_prefix' = get_prefix(kpsewhich)
    /\ pc' = "clean_file"
    /\ UNCHANGED <<args, kpsewhich, ifp, nread, errcode, prev_state, prev_is_empty, ofp,
                   exit_status>>

\* get_prefix raises (CalledProcessError or ValueError): the interpreter
\* prints the traceback and exits with status 1
GetPrefixRaises ==
    /\ pc = "get_prefix"
    /\ ~PrefixFound(kpsewhich)
    /\ pc' = "raised"
    /\ exit_status' = 1
    /\ UNCHANGED <<args, kpsewhich, ifp, std_path_prefix, nread, errcode, prev_state,
                   prev_is_empty, ofp>>

\* one round of `for line in ifp`
NextLine ==
    /\ pc = "clean_file"
    /\ nread < Len(ifp)
    /\ LET r == Body(Filters(args), StdPathPattern(std_path_prefix),
                     [errcode |-> errcode, prev_state |-> prev_state,
                      prev_is_empty |-> prev_is_empty, ofp |-> ofp],
                     ifp[nread + 1])
       IN  /\ errcode' = r.errcode
           /\ prev_state' = r.prev_state
           /\ prev_is_empty' = r.prev_is_empty
           /\ ofp' = r.ofp
    /\ nread' = nread + 1
    /\ UNCHANGED <<args, kpsewhich, ifp, pc, std_path_prefix, exit_status>>

\* ExitWithErrcode, calling sys.exit() without the errcode
ExitWithErrcode_zero ==
    /\ pc = "clean_file"
    /\ nread = Len(ifp)
    /\ args.detect_error # 0
    /\ exit_status' = 0
    /\ pc' = "exit"
    /\ UNCHANGED <<args, kpsewhich, ifp, std_path_prefix, nread, errcode, prev_state,
                   prev_is_empty, ofp>>

\* the stream is exhausted, clean_file returns errcode, and detect_error is
\* set: sys.exit(errcode)
ExitWithErrcode ==
    /\ pc = "clean_file"
    /\ nread = Len(ifp)
    /\ args.detect_error # 0
    /\ exit_status' = errcode
    /\ pc' = "exit"
    /\ UNCHANGED <<args, kpsewhich, ifp, std_path_prefix, nread, errcode, prev_state,
                   prev_is_empty, ofp>>

\* ExitPlain, exiting with errcode all the same
ExitPlain_errcode ==
    /\ pc = "clean_file"
    /\ nread = Len(ifp)
    /\ args.detect_error = 0
    /\ exit_status' = errcode
    /\ pc' = "exit"
    /\ UNCHANGED <<args, kpsewhich, ifp, std_path_prefix, nread, errcode, prev_state,
                   prev_is_empty, ofp>>

\* the stream is exhausted, clean_file returns, and detect_error is not
\* set: main returns and the process exits with status 0
ExitPlain ==
    /\ pc = "clean_file"
    /\ nread = Len(ifp)
    /\ args.detect_error = 0
    /\ exit_status' = 0
    /\ pc' = "exit"
    /\ UNCHANGED <<args, kpsewhich, ifp, std_path_prefix, nread, errcode, prev_state,
                   prev_is_empty, ofp>>

Next ==
    \/ GetPrefix
    \/ GetPrefixRaises
    \/ NextLine
    \/ ExitWithErrcode
    \/ ExitPlain

(***************************************************************************)
(* The lines and the bounds of the specifications                          *)
(***************************************************************************)

Hello == "Hello\n"
Padded == "  Hello  world \t\n"
Blank == "\n"
Fatal == "! Undefined control sequence.\n"
Indented == "  ! Missing number.\n"
OfullHbox == "Overfull \\hbox (5.0pt too wide) in paragraph at lines 10--12\n"
UfullHbox == "Underfull \\hbox (badness 10000) in paragraph at lines 3--4\n"
WordsOfMem == " 2143 words of node memory still in use:\n"
PageOnly == "[1]\n"
Parens == "( )\n"
Banner == "This is pdfTeX, Version 3.14\n"
StyMessage == "(/opt/texlive/2020/texmf-dist/tex/latex/foo/foo.sty Some message)\n"

\* the longest stream of Spec and SpecHbox
MaxLines == 3

\* Spec: fatal-error lines among plain lines and discarded lines
ErrPool == {Hello, Fatal, Indented, OfullHbox}

Init == InitWith(ArgsSetting({"detect_error", "full_hbox_details"}),
                 Streams(ErrPool, MaxLines))

Spec == Init /\ [][Next]_vars

\* the default command line without the exit status of detect_error
NoDetectError == [Defaults EXCEPT !.detect_error = 0]

\* SpecHbox: hbox headers, the lines after them and node-memory markers
HboxPool == {Hello, OfullHbox, UfullHbox, WordsOfMem}

InitHbox ==
    InitWith(ArgsSetting({"full_hbox_details", "ofull_hbox", "ufull_hbox", "words_of_mem"})
                 \cup {NoDetectError},
             Streams(HboxPool, MaxLines))

SpecHbox == InitHbox /\ [][Next]_vars

\* the longest stream of SpecBlank
MaxBlankLines == 4

\* SpecBlank: blank lines, a line rewritten to blank, and a line discarded
\* under bad_lines
BlankPool == {Hello, Blank, PageOnly, Banner}

InitBlank == InitWith(ArgsSetting({"empty_lines", "bad_lines"}) \cup {NoDetectError},
                      Streams(BlankPool, MaxBlankLines))

SpecBlank == InitBlank /\ [][Next]_vars

\* the default command line and those that set one option against its default
OneOptionSet ==
    {Defaults} \cup {[Defaults EXCEPT ![name] = 1 - Defaults[name]] : name \in ArgNames}

\* SpecScenario: the example streams of the specification
ScenarioStreams == {<<StyMessage>>, <<Banner, Hello, PageOnly>>, <<Fatal>>}

InitScenario == InitWith(OneOptionSet, ScenarioStreams)

SpecScenario == InitScenario /\ [][Next]_vars

\* the longest stream of SpecClean
MaxCleanLines == 2

\* every filter set, every filter cleared
AllSet == [name \in ArgNames |-> 1]
AllCleared == [name \in ArgNames |-> 0]

\* SpecClean: lines with nothing to rewrite, among a header, a group of
\* parentheses and a blank line
CleanPool == {Hello, Padded, Fatal, OfullHbox, Parens, Blank}

InitClean == InitWith(OneOptionSet \cup {AllSet, AllCleared},
                      Streams(CleanPool, MaxCleanLines))

SpecClean == InitClean /\ [][Next]_vars

UfullVbox == "Underfull \\vbox (badness 10000) has occurred while \\output is active\n"
OfullVboxBox == "Overfull \\vbox (12.5pt too high) has occurred while \\output is active []\n"
OfullVboxDetected == "Overfull \\vbox (12.5pt too high) detected at line 12\n"

\* the longest stream of SpecVbox
MaxVboxLines == 2

\* SpecVbox: vbox warnings in the phrasing of the patterns, with text after
\* it, and in another phrasing, among a plain line and an hbox header
VboxPool == {Hello, UfullVbox, OfullVboxBox, OfullVboxDetected, OfullHbox}

\* the vbox toggles with and without empty_lines, and ofull_hbox set
VboxArgs ==
    ArgsSetting({"ofull_vbox", "ufull_vbox", "empty_lines"})
        \cup {[Defaults EXCEPT !.ofull_hbox = 1], NoDetectError}

InitVbox == InitWith(VboxArgs, Streams(VboxPool, MaxVboxLines))

SpecVbox == InitVbox /\ [][Next]_vars

\* the longest stream of SpecDiscard
MaxDiscardLines == 3

\* SpecDiscard: lines discarded by the prefix blacklist and by the lookback
\* (among them a header and a fatal-error line), and a blank line
DiscardPool == {Blank, Banner, OfullHbox, Fatal}

InitDiscard ==
    InitWith(ArgsSetting({"bad_lines", "full_hbox_details", "empty_lines"})
                 \cup {NoDetectError},
             Streams(DiscardPool, MaxDiscardLines))

SpecDiscard == InitDiscard /\ [][Next]_vars

MemDetail == "   3 hlist, 1 vlist, 1 rule, 1 glue\n"

\* the longest stream of SpecMem
MaxMemLines == 3

\* SpecMem: node-memory marker lines and what may follow them
MemPool == {Hello, WordsOfMem, MemDetail, Fatal}

InitMem == InitWith(ArgsSetting({"words_of_mem"}) \cup {NoDetectError},
                    Streams(MemPool, MaxMemLines))

SpecMem == InitMem /\ [][Next]_vars

StubPage == "# [1]\n"
GroupPage == "(# [1])\n"
TextGroupPage == "Hello (# [1])\n"
EndPage == "Hello [1]\n"
MidPage == "see [1] for details\n"
TwoPages == "[1] see [2.3] and [4]\n"

\* the longest stream of SpecPage
MaxPageLines == 2

\* SpecPage: page numbers at the end and in the middle of a line, next to
\* stub tokens and inside a parenthesis group
PagePool == {Hello, StubPage, GroupPage, TextGroupPage, EndPage, MidPage, TwoPages}

InitPage ==
    InitWith(ArgsSetting({"path_stubs", "page_numbers", "empty_lines"}) \cup {NoDetectError},
             Streams(PagePool, MaxPageLines))

SpecPage == InitPage /\ [][Next]_vars

(***************************************************************************)
(* The error flag and the exit status                                      *)
(***************************************************************************)

\* some line among the first n of the stream begins with the fatal sentinel
SentinelAmong(n) == \E i \in 1..n : StartsWith(ifp[i], "! ")

\* C1: clean_file's error flag is 1 if and only if at least one raw line read
\* so far begins with '! ', whatever became of that line; so it is for the
\* flag returned at the end of the stream.
C1_FlagIffSentinelLine ==
    pc \in {"clean_file", "exit"} =>
        /\ errcode \in {0, 1}
        /\ errcode = 1 <=> SentinelAmong(nread)

\* a run that ended with the flag set by a sentinel line that was discarded
\* as the detail line of an hbox header: nothing was written for it
C1_Witness ==
    /\ pc = "exit"
    /\ errcode = 1
    /\ Filters(args).full_hbox_details
    /\ Len(ifp) = 2
    /\ has_ofull_hbox(Strip(ifp[1]))
    /\ StartsWith(ifp[2], "! ")
    /\ ofp = <<Strip(ifp[1]) \o "\n">>

\* C2: once errcode is 1 it is 1 after every later step
C2_FlagMonotone == [][errcode = 1 => errcode' = 1]_vars

\* the flag is set and a later line without the sentinel has been processed
C2_Witness ==
    /\ errcode = 1
    /\ nread >= 2
    /\ SentinelAmong(nread - 1)
    /\ ~StartsWith(ifp[nread], "! ")

\* C3: a run that filtered its stream exits with status 1 when a sentinel
\* line was seen and detect_error is set, and with status 0 otherwise
C3_ExitStatus ==
    pc = "exit" =>
        exit_status = IF SentinelAmong(Len(ifp)) /\ args.detect_error # 0 THEN 1 ELSE 0

\* a run that saw a sentinel line, with detect_error set, has exited with 1
C3_Witness ==
    /\ pc = "exit"
    /\ exit_status = 1
    /\ args.detect_error = 1
    /\ SentinelAmong(Len(ifp))

\* the stream with a space before every line: the same lines after strip(),
\* none of which begins with the sentinel
Indent(lines) == [k \in DOMAIN lines |-> " " \o lines[k]]

\* C4: a sentinel line does not stop the loop or change what is written: the
\* run ends only when the whole stream is read, and its output is the output
\* for the stream in which no line is detected as a sentinel line.
C4_SentinelLeavesFilteringAlone ==
    pc = "exit" =>
        /\ nread = Len(ifp)
        /\ ofp = clean_file(Indent(ifp), Len(ifp), std_path_prefix, Filters(args)).ofp

\* a finished run whose first line was a sentinel line and that wrote the
\* two lines after it
C4_Witness ==
    /\ pc = "exit"
    /\ Len(ifp) = 3
    /\ StartsWith(ifp[1], "! ")
    /\ errcode = 1
    /\ Len(ofp) = 3

(***************************************************************************)
(* Lookback: hbox headers and their detail lines                           *)
(***************************************************************************)

\* the stripped text of the i-th line of the stream
LineAt(i) == Strip(ifp[i])

IsHeader(line) == has_ofull_hbox(line) \/ has_ufull_hbox(line)

\* the header's own suppression rule is enabled
OwnRule(line) ==
    \/ Filters(args).ofull_hbox /\ has_ofull_hbox(line)
    \/ Filters(args).ufull_hbox /\ has_ufull_hbox(line)

\* the step is a round of the loop
LineStep == pc = "clean_file" /\ nread' = nread + 1

\* the round of the loop writes the line it read: one more string on ofp
LineWritten == ofp' # ofp

\* with full_hbox_details set, the line after an hbox header is not written
DetailDiscarded ==
    LineStep /\ Filters(args).full_hbox_details /\ nread >= 1 /\ IsHeader(LineAt(nread))
        => ofp' = ofp

\* what is written is never taken back or changed by a later line
OutputOnlyGrows ==
    /\ Len(ofp') >= Len(ofp)
    /\ SubSeq(ofp', 1, Len(ofp)) = ofp

\* C5 as claimed: with full_hbox_details set the line after an hbox header is
\* never written, and an hbox header is discarded exactly when its own rule
\* (ofull_hbox / ufull_hbox) is enabled.
C5_HeaderFateOwnRuleOnly ==
    [][/\ DetailDiscarded
       /\ LineStep /\ IsHeader(LineAt(nread + 1))
              => (~LineWritten <=> OwnRule(LineAt(nread + 1)))]_vars

\* the lookback of the line before reaches the header
LookbackDiscards(line) ==
    \/ Filters(args).full_hbox_details /\ nread >= 1 /\ IsHeader(LineAt(nread))
    \/ Filters(args).words_of_mem
           /\ \/ Contains(line, "words of node memory still in use")
              \/ nread >= 1 /\ Contains(LineAt(nread), "words of node memory still in use")

\* C5, amended: with full_hbox_details set the line after an hbox header is
\* never written, whatever became of the header; an hbox header is discarded
\* exactly when its own rule is enabled or the lookback from the line before
\* it discards it (full_hbox_details after another header, words_of_mem
\* after or on a node-memory marker), and is written unchanged otherwise;
\* the line after it never changes what was written.
C5_Lookback ==
    [][/\ DetailDiscarded
       /\ LineStep /\ IsHeader(LineAt(nread + 1))
              => IF OwnRule(LineAt(nread + 1)) \/ LookbackDiscards(LineAt(nread + 1))
                 THEN ofp' = ofp
                 ELSE ofp' = Append(ofp, LineAt(nread + 1) \o "\n")
       /\ OutputOnlyGrows]_vars

\* a header whose own rule is disabled was written and the line after it was
\* discarded as its detail line
C5_Witness ==
    /\ pc = "exit"
    /\ Filters(args).full_hbox_details
    /\ ~Filters(args).ofull_hbox
    /\ Len(ifp) = 2
    /\ has_ofull_hbox(LineAt(1))
    /\ ~IsHeader(LineAt(2))
    /\ ~Contains(LineAt(2), "words of node memory still in use")
    /\ ofp = <<LineAt(1) \o "\n">>

(***************************************************************************)
(* Blank lines                                                             *)
(***************************************************************************)

\* the k-th string written is a blank line
BlankWritten(k) == ofp[k] = "\n"

\* C6: with empty_lines set the output holds no blank line; in every case it
\* holds no two blank lines in a row, whatever was discarded between them
C6_BlankCollapsing ==
    /\ Filters(args).empty_lines => \A k \in 1..Len(ofp) : ~BlankWritten(k)
    /\ \A k \in 1..(Len(ofp) - 1) : ~(BlankWritten(k) /\ BlankWritten(k + 1))

\* empty_lines is not set and two blank lines came with only a discarded line
\* between them: one blank line was written
C6_Witness ==
    /\ pc = "exit"
    /\ ~Filters(args).empty_lines
    /\ Len(ifp) = 4
    /\ LineAt(1) # ""
    /\ LineAt(2) = ""
    /\ Discard(Filters(args), LineState(LineAt(2)), LineAt(3))
    /\ LineAt(4) = ""
    /\ ~Discard(Filters(args), LineState(LineAt(3)), LineAt(4))
    /\ ofp = <<LineAt(1) \o "\n", "\n">>

(***************************************************************************)
(* Path stubs inside a parenthesis group                                   *)
(***************************************************************************)

\* the run of the one line with a path inside a parenthesis group is over,
\* with the installation root /opt/texlive/2020 and std_paths and path_stubs set
StyMessageFiltered ==
    /\ pc = "exit"
    /\ ifp = <<StyMessage>>
    /\ std_path_prefix = "/opt/texlive/2020"
    /\ Filters(args).std_paths
    /\ Filters(args).path_stubs

\* C7 as claimed: the line is written as 'Some message'
C7_GroupVanishes == StyMessageFiltered => ofp = <<"Some message\n">>

\* C7, amended: the line is written as '(# Some message)': the path becomes
\* the stub token, and the group stays, because PATH_STUB_PATTERN takes only
\* groups made of stub tokens, parentheses and spaces
C7_GroupStays == StyMessageFiltered => ofp = <<"(# Some message)\n">>

\* the line was filtered under the default configuration
C7_Witness == StyMessageFiltered /\ args = Defaults

(***************************************************************************)
(* Lines with nothing to rewrite                                           *)
(***************************************************************************)

\* r matches somewhere in s
ReSearch(r, s) == \E i \in 1..(Len(s) + 1) : MatchEnd(r, s, i) # 0

\* a page-number group ends the line
PageNumberSuffix(line) ==
    \E i \in 1..Len(line) : MatchEnd(PAGE_NUMBER_PATTERN, line, i) = Len(line) + 1

\* a line with text and with no blacklisted substring, no installation path
\* and no page-number suffix
ClaimedClean(line) ==
    /\ line # ""
    /\ \A k \in 1..Len(BAD_STRS) : ~Contains(line, BAD_STRS[k])
    /\ \A k \in 1..Len(BAD_PATTERNS) : ~ReSearch(BAD_PATTERNS[k], line)
    /\ ~ReSearch(StdPathPattern(std_path_prefix), line)
    /\ ~PageNumberSuffix(line)

\* the round writes the stripped line as it is
PassedThrough == ofp' = Append(ofp, LineAt(nread + 1) \o "\n")

\* C8 as claimed: for every configuration a line with no blacklisted
\* substring, no installation path and no page-number suffix is written
\* unchanged apart from the trimming
C8_CleanAsClaimed == [][LineStep /\ ClaimedClean(LineAt(nread + 1)) => PassedThrough]_vars

Marker == "words of node memory still in use"

\* nothing in the line for any rule of the loop to act on
NothingToFilter(line) ==
    /\ line # ""
    /\ ~IsHeader(line)
    /\ ~Contains(line, Marker)
    /\ ~fullmatch(LATEX_FONT_WARN_1, line)
    /\ ~fullmatch(LATEX_FONT_WARN_2, line)
    /\ ~ReMatch(CITEREF_PATTERN, line)
    /\ ~StartsWithAny(line, BAD_LINES)
    /\ \A k \in 1..Len(BAD_STRS) : ~Contains(line, BAD_STRS[k])
    /\ \A k \in 1..Len(BAD_PATTERNS) : ~ReSearch(BAD_PATTERNS[k], line)
    /\ ~ReSearch(OFULL_VBOX_PATTERN, line)
    /\ ~ReSearch(UFULL_VBOX_PATTERN, line)
    /\ ~ReSearch(StdPathPattern(std_path_prefix), line)
    /\ ~ReSearch(LOCAL_PATH_PATTERN, line)
    /\ ~Contains(line, PATH_STUB)
    /\ ~ReSearch(PAGE_NUMBER_PATTERN, line)
    /\ ~fullmatch(PARENS_PATTERN, line)

\* the line before, if any, is no hbox header and holds no node-memory marker
NoLookback == nread >= 1 => ~IsHeader(LineAt(nread)) /\ ~Contains(LineAt(nread), Marker)

\* C8, amended: for every configuration, a line that is not blank after the
\* trimming, does not follow an hbox header or a node-memory marker line,
\* and holds nothing a rule acts on (no hbox header, node-memory marker,
\* font or citation warning, blacklisted prefix, blacklisted substring or
\* pattern, vbox phrase, installation or local path, stub token, bracketed
\* page number; not made of parentheses and spaces only) is written
\* unchanged apart from the trimming
C8_CleanPassThrough ==
    [][LineStep /\ NoLookback /\ NothingToFilter(LineAt(nread + 1)) => PassedThrough]_vars

\* a padded line went through every filter and was written trimmed
C8_Witness ==
    /\ pc = "exit"
    /\ args = AllSet
    /\ ifp = <<Padded>>
    /\ ofp = <<"Hello  world\n">>

(***************************************************************************)
(* The example streams                                                     *)
(***************************************************************************)

BannerFiltered == pc = "exit" /\ ifp = <<Banner, Hello, PageOnly>>

\* C9: with the default configuration the stream of the banner, 'Hello' and
\* '[1]' gives the one output line 'Hello'; the banner goes by the prefix
\* blacklist (it is written when bad_lines is cleared), and the page-number
\* line is rewritten to blank (it is written as it is when page_numbers is
\* cleared) and withheld as an empty line (a blank line is written when
\* empty_lines is cleared)
C9_BannerHelloPage ==
    BannerFiltered =>
        /\ args = Defaults => ofp = <<"Hello\n">>
        /\ args = [Defaults EXCEPT !.bad_lines = 0]
               => ofp = <<"This is pdfTeX, Version 3.14\n", "Hello\n">>
        /\ args = [Defaults EXCEPT !.page_numbers = 0] => ofp = <<"Hello\n", "[1]\n">>
        /\ args = [Defaults EXCEPT !.empty_lines = 0] => ofp = <<"Hello\n", "\n">>

\* the three lines were filtered under the default configuration
C9_Witness == BannerFiltered /\ args = Defaults /\ ofp = <<"Hello\n">>

FatalFiltered == pc = "exit" /\ ifp = <<Fatal>>

\* C10: the stream of the one line '! Undefined control sequence.' is written
\* unchanged, the error flag is 1, and the exit status is 1 when detect_error
\* is set
C10_FatalLineAlone ==
    FatalFiltered =>
        /\ ofp = <<"! Undefined control sequence.\n">>
        /\ errcode = 1
        /\ args.detect_error # 0 => exit_status = 1

\* the line was filtered with detect_error set and the process exited with 1
C10_Witness == FatalFiltered /\ args.detect_error = 1 /\ exit_status = 1

(***************************************************************************)
(* The filter configuration                                                *)
(***************************************************************************)

\* C11: the filter configuration handed to clean_file has exactly the keys
\* of the rule registry FILTERS: every rule name, and no other key
C11_SameKeySet == pc \in {"clean_file", "exit"} => DOMAIN Filters(args) = DOMAIN FILTERS

(***************************************************************************)
(* Vertical box warnings                                                   *)
(***************************************************************************)

\* the line opens a vbox warning whose toggle is enabled
VboxRule(line) ==
    \/ Filters(args).ofull_vbox /\ StartsWith(line, "Overfull \\vbox")
    \/ Filters(args).ufull_vbox /\ StartsWith(line, "Underfull \\vbox")

VboxPhrase ==
    Alt(<<Cat(<<Lit("Overfull \\vbox ("), Plus(In(Digit \cup {"."})),
                Lit("pt too high) has occurred while \\output is active")>>),
          Cat(<<Lit("Underfull \\vbox (badness "), Plus(In(Digit)),
                Lit(") has occurred while \\output is active")>>)>>)

\* the line without the phrase it opens with, trimmed; the line itself when
\* it opens with another phrasing
AfterVboxPhrase(line) ==
    IF MatchEnd(VboxPhrase, line, 1) = 0 THEN line
    ELSE Strip(SubSeq(line, MatchEnd(VboxPhrase, line, 1), Len(line)))

BlankStep ==
    /\ LineStep
    /\ ~Discard(Filters(args), prev_state, LineAt(nread + 1))
    /\ Rewrite(Filters(args), StdPathPattern(std_path_prefix), LineAt(nread + 1)) = ""

\* the last string written is a blank line
LastWrittenBlank == ofp # <<>> /\ BlankWritten(Len(ofp))

\* C13 as claimed: a line that is not discarded and is blank after the
\* rewrites is withheld if and only if empty_lines is enabled or the last
\* line written was blank; otherwise, also when nothing has been written
\* yet, it is written as a line terminator
C13_BlankWithheldAsClaimed ==
    [][BlankStep =>
          IF Filters(args).empty_lines \/ LastWrittenBlank
          THEN ofp' = ofp
          ELSE ofp' = Append(ofp, "\n")]_vars

\* C13, amended: such a line is withheld if and only if empty_lines is
\* enabled, or the last line written was blank, or nothing has been written
\* yet; otherwise it is written as a line terminator
C13_BlankWithheld ==
    [][BlankStep =>
          IF Filters(args).empty_lines \/ LastWrittenBlank \/ ofp = <<>>
          THEN ofp' = ofp
          ELSE ofp' = Append(ofp, "\n")]_vars

\* with empty_lines cleared, the blank line that opens the stream was
\* withheld and the line rewritten to blank after 'Hello' was written
C13_Witness ==
    /\ pc = "exit"
    /\ ~Filters(args).empty_lines
    /\ ifp = <<Blank, Hello, PageOnly>>
    /\ ofp = <<"Hello\n", "\n">>

(***************************************************************************)
(* Discarded lines                                                         *)
(***************************************************************************)

\* the round reads a line that the suppression decision discards
DiscardStep == LineStep /\ Discard(Filters(args), prev_state, LineAt(nread + 1))

\* C14: a discarded line writes nothing and leaves prev_is_empty as it was;
\* it changes only the lookback state, which becomes the classification of
\* the discarded line itself, and the error flag when the raw line begins
\* with the sentinel
C14_DiscardedLineEffects ==
    [][DiscardStep =>
          /\ ofp' = ofp
          /\ prev_is_empty' = prev_is_empty
          /\ prev_state' = [full_hbox |-> IsHeader(LineAt(nread + 1)),
                            words_of_mem |-> Contains(LineAt(nread + 1), Marker)]
          /\ errcode' = IF StartsWith(ifp[nread + 1], "! ") THEN 1 ELSE errcode
          /\ UNCHANGED <<args, kpsewhich, ifp, pc, std_path_prefix, exit_status>>]_vars

\* a header was written, the header after it and then the fatal-error line
\* were discarded as detail lines, and the fatal-error line set the flag
C14_Witness ==
    /\ pc = "exit"
    /\ Filters(args).full_hbox_details
    /\ ifp = <<OfullHbox, OfullHbox, Fatal>>
    /\ ofp = <<LineAt(1) \o "\n">>
    /\ errcode = 1
    /\ ~prev_state.full_hbox
    /\ ~prev_is_empty

(***************************************************************************)
(* The node-memory marker                                                  *)
(***************************************************************************)

\* the round reads a line that holds the node-memory marker or that comes
\* right after a line that holds it
MarkerStep ==
    /\ LineStep
    /\ \/ Contains(LineAt(nread + 1), Marker)
       \/ nread >= 1 /\ Contains(LineAt(nread), Marker)

\* C15: with words_of_mem enabled, a line that holds 'words of node memory
\* still in use' and the line right after such a line are discarded,
\* whatever the line after it holds: nothing is written for them
C15_MarkerAndNextDiscarded ==
    [][MarkerStep /\ Filters(args).words_of_mem
           => ofp' = ofp /\ prev_is_empty' = prev_is_empty]_vars

\* with words_of_mem set, the marker line and the fatal-error line after it
\* were discarded, and the line after those was written
C15_Witness ==
    /\ pc = "exit"
    /\ Filters(args).words_of_mem
    /\ ifp = <<WordsOfMem, Fatal, Hello>>
    /\ ofp = <<"Hello\n">>
    /\ errcode = 1

(***************************************************************************)
(* Page numbers and the second path-stub test                              *)
(***************************************************************************)

\* the round reads a line with path_stubs and page_numbers enabled
StubPageStep == LineStep /\ Filters(args).path_stubs /\ Filters(args).page_numbers

\* the round treats its line as a blank line
ComesOutBlank == prev_is_empty' /\ (ofp' = ofp \/ ofp' = Append(ofp, "\n"))

\* C17 as claimed: with path_stubs and page_numbers enabled, a stub token
\* followed by a page number comes out blank, and a parenthesis group that
\* holds only a stub token and a page number is removed from the line: no
\* stub token is written
C17_StubGroupGone ==
    [][StubPageStep =>
          /\ LineAt(nread + 1) = "# [1]" => ComesOutBlank
          /\ LineWritten => ~Contains(ofp'[Len(ofp')], PATH_STUB)]_vars

\* the text is made of stub tokens, parentheses and spaces only
OnlyStubChars(s) == \A i \in 1..Len(s) : CharAt(s, i) \in {"(", "#", ")", " "}

\* C17, amended: the second pass is the test of the whole line only: when
\* the line without its page numbers is made of stub tokens, parentheses
\* and spaces only, it comes out blank; a group that is left with only a
\* stub token inside a line with other text stays
C17_WholeLineOnly ==
    [][StubPageStep =>
          /\ OnlyStubChars(ReSub(PAGE_NUMBER_PATTERN, "", LineAt(nread + 1)))
                 => ComesOutBlank
          /\ LineAt(nread + 1) = "Hello (# [1])"
                 => ofp' = Append(ofp, "Hello (#)\n")]_vars

\* with empty_lines cleared, the stub token followed by a page number was
\* written as an empty line after 'Hello'
C17_Witness ==
    /\ pc = "exit"
    /\ Filters(args).path_stubs
    /\ Filters(args).page_numbers
    /\ ~Filters(args).empty_lines
    /\ ifp = <<Hello, StubPage>>
    /\ ofp = <<"Hello\n", "\n">>

\* the line without the page number that ends it
WithoutTrailingPage(line) ==
    IF PageNumberSuffix(line)
    THEN SubSeq(line, 1,
                (CHOOSE i \in 1..Len(line) :
                     /\ MatchEnd(PAGE_NUMBER_PATTERN, line, i) = Len(line) + 1
                     /\ \A j \in 1..(i - 1) :
                            MatchEnd(PAGE_NUMBER_PATTERN, line, j) # Len(line) + 1) - 1)
    ELSE line

\* the round reads a line without stub token, with page_numbers enabled
PageStep ==
    LineStep /\ Filters(args).page_numbers /\ ~Contains(LineAt(nread + 1), PATH_STUB)

\* C18 as claimed: with page_numbers enabled, the page number that ends the
\* line goes, with the whitespace before it, and a bracketed group with
\* text after it stays
C18_OnlyTrailingRemoved ==
    [][PageStep => ofp' = Append(ofp, WithoutTrailingPage(LineAt(nread + 1)) \o "\n")]_vars

\* C18, amended: with page_numbers enabled, every bracketed group of digits
\* and dots goes, with the whitespace before it, at the end of the line and
\* in the middle of it alike
C18_EveryPageNumberRemoved ==
    [][PageStep =>
          /\ LineAt(nread + 1) = "Hello" => ofp' = Append(ofp, "Hello\n")
          /\ LineAt(nread + 1) = "Hello [1]" => ofp' = Append(ofp, "Hello\n")
          /\ LineAt(nread + 1) = "see [1] for details"
                 => ofp' = Append(ofp, "see for details\n")
          /\ LineAt(nread + 1) = "[1] see [2.3] and [4]"
                 => ofp' = Append(ofp, "see and\n")]_vars

\* the page number in the middle of the line was removed
C18_Witness ==
    /\ pc = "exit"
    /\ Filters(args).page_numbers
    /\ ifp = <<MidPage, EndPage>>
    /\ ofp = <<"see for details\n", "Hello\n">>

(***************************************************************************)
(* One line of lookback                                                    *)
(***************************************************************************)

\* what the configuration discards, told from the text of line i and of
\* line i - 1 alone
DiscardedByTwoLines(i) ==
    \/ OwnRule(LineAt(i))
    \/ Filters(args).words_of_mem /\ Contains(LineAt(i), Marker)
    \/ Filters(args).bad_lines /\ StartsWithAny(LineAt(i), BAD_LINES)
    \/ Filters(args).font /\ (\/ fullmatch(LATEX_FONT_WARN_1, LineAt(i))
                              \/ fullmatch(LATEX_FONT_WARN_2, LineAt(i)))
    \/ Filters(args).citeref /\ ReMatch(CITEREF_PATTERN, LineAt(i))
    \/ i >= 2 /\ Filters(args).full_hbox_details /\ IsHeader(LineAt(i - 1))
    \/ i >= 2 /\ Filters(args).words_of_mem /\ Contains(LineAt(i - 1), Marker)

\* C16: whether line i is discarded depends only on its own text, on the
\* classification of line i - 1 and on the configuration: the lookback state
\* holds the classification of the last line read and nothing older, and
\* the lines written are as many as the lines that these three do not
\* discard, whatever header or marker stands two or more lines before them
\* (the lines of SpecHbox keep their text through the rewrites, so each
\* line that is not discarded is written)
C16_OneLineLookback ==
    /\ nread >= 1 =>
           prev_state = [full_hbox |-> IsHeader(LineAt(nread)),
                         words_of_mem |-> Contains(LineAt(nread), Marker)]
    /\ Len(ofp) = Cardinality({i \in 1..nread : ~DiscardedByTwoLines(i)})

\* with full_hbox_details set, the line after the header was discarded and
\* the line two places after the header was written
C16_Witness ==
    /\ pc = "exit"
    /\ Filters(args).full_hbox_details
    /\ ~Filters(args).ofull_hbox
    /\ ifp = <<OfullHbox, Hello, Hello>>
    /\ ofp = <<LineAt(1) \o "\n", "Hello\n">>

(***************************************************************************)
(* Consecutive hbox headers                                                *)
(***************************************************************************)

\* the lines read so far are hbox headers, all of them
OnlyHeaders == nread >= 1 /\ \A i \in 1..nread : IsHeader(LineAt(i))

\* C19: with full_hbox_details enabled, an hbox header right after another
\* hbox header is discarded as its detail line, also when ofull_hbox and
\* ufull_hbox are disabled, and it counts as a header for the line after
\* it: of a run of consecutive headers only the first can be written
C19_ConsecutiveHeaders ==
    Filters(args).full_hbox_details /\ OnlyHeaders =>
        /\ prev_state.full_hbox
        /\ ofp = IF OwnRule(LineAt(1)) THEN <<>> ELSE <<LineAt(1) \o "\n">>

\* three headers in a row with ofull_hbox and ufull_hbox cleared: the first
\* was written, the two after it were not
C19_Witness ==
    /\ pc = "exit"
    /\ Filters(args).full_hbox_details
    /\ ~Filters(args).ofull_hbox
    /\ ~Filters(args).ufull_hbox
    /\ ifp = <<OfullHbox, UfullHbox, OfullHbox>>
    /\ ofp = <<LineAt(1) \o "\n">>

====
